---- MODULE Spec2Model ----
(***************************************************************************)
(* Model of simple-one-api's service registry (pkg/config/config.go) and   *)
(* of the coze.cn protocol adapter's response handling                     *)
(* (pkg/handler/openai_cozecn_handler.go).                                 *)
(*                                                                         *)
(* The specifications of the module:                                       *)
(*   SpecStream  handleCozecnStreamResponse reading one response body      *)
(*   SpecSync    handleCozecnResponse answering one backend response       *)
(*   SpecReg     InitConfig followed by lookups in ModelToService          *)
(*   SpecIdx     InitConfig followed by GetRandomEnabledModelDetailsV1 and *)
(*               GetModelMapping on the entries of ModelToService          *)
(*   SpecGov     InitConfig followed by request flows that acquire and     *)
(*               release the limiter / semaphore of the entry they use     *)
(*   SpecFlow    InitConfig followed by request flows that acquire a       *)
(*               permit, stream one response and release the permit        *)
(***************************************************************************)
EXTENDS Integers, Sequences, FiniteSets, TLC

VARIABLES
    \* ---- handleCozecnStreamResponse ----
    body,        \* the lines scanner.Scan() will deliver, in order
    readErr,     \* TRUE iff scanner.Err() is non-nil once Scan() returns false
    oaiReq,      \* the canonical request (Model, Stream)
    scanned,     \* number of lines Scan() has delivered so far
    written,     \* chunks passed to c.Writer.WriteString, in order
    state,       \* "STREAMING", "DONE", "ERROR" or "EOF"
    ret,         \* the value the handler returned (NoErr while it runs / on nil)
    connected,   \* FALSE once the consumer has gone: WriteString then fails
    failedWrites,\* number of WriteString calls that returned an error
    streamer,    \* the request flow this response belongs to (0: none)
    envelope,    \* the body of a non-streaming response, as it reads and decodes
    completions, \* the completions passed to c.JSON, in order
    \* ---- package config ----
    conf,                   \* the Configuration decoded from the document
    phase,                  \* "start" before InitConfig has run, then "serving"
    LoadBalancingStrategy,  \* package variable set by InitConfig
    ModelToService,         \* package variable: model name -> list of ModelDetails
    limiters,               \* the rate.Limiter objects: entry -> tokens, refill credit
    semaphores,             \* the semaphore channels: entry -> number of buffered permits
    last,                   \* result of the most recent lookup
    firstResult,            \* model name -> the entry GetModelService first returned
                            \* for it, and whether it has returned one again since
    mapped,                 \* the most recent GetModelMapping call and its result
    \* ---- request flows using the governor of an entry ----
    granted,     \* entry -> tokens its rate.Limiter handed out in the current time unit
    pc,          \* flow -> "idle", "waiting", "holding" or "failed"
    held,        \* flow -> the ModelDetails its lookup returned, until released
    waited,      \* flow -> time units its blocked (or timed-out) acquire has waited
    flowErr      \* flow -> error its last request failed with

streamVars ==
    <<body, readErr, oaiReq, scanned, written, state, ret, connected,
      failedWrites, streamer, envelope, completions>>
configVars == <<conf, phase, LoadBalancingStrategy, ModelToService>>
governorVars == <<limiters, semaphores, granted>>
lookupVars == <<last, firstResult, mapped>>
flowVars == <<pc, held, waited, flowErr>>

----------------------------------------------------------------------------
(* Bounds *)
MaxLines == 4
MaxEntries == 2        \* entries declared by the first service (lookup specification)
MaxOtherEntries == 1   \* entries declared by each other service
NumFlows == 3          \* concurrent request flows

----------------------------------------------------------------------------
(* Lines of the backend's event stream.  hasPrefix: the line starts with   *)
(* "data:"; decodes: json.Unmarshal of the rest succeeds; the other fields *)
(* are those of cozecn.StreamResponse that the handler reads.              *)
Line(hasPrefix, decodes, event, type, content, code, msg) ==
    [hasPrefix |-> hasPrefix, decodes |-> decodes, Event |-> event,
     Type |-> type, Content |-> content, Code |-> code, Msg |-> msg]

MessageLine(type, content) == Line(TRUE, TRUE, "message", type, content, 0, "")
DoneLine == Line(TRUE, TRUE, "done", "", "", 0, "")
ErrorLine(code, msg) == Line(TRUE, TRUE, "error", "", "", code, msg)
UnknownLine == Line(TRUE, TRUE, "ping", "", "", 0, "")
MalformedLine == Line(TRUE, FALSE, "", "", "", 0, "")
NonDataLine == Line(FALSE, FALSE, "", "", "", 0, "")

Lines ==
    {MessageLine("answer", "A"), MessageLine("answer", "B"),
     MessageLine("verbose", "A"), DoneLine,
     ErrorLine(7, "x"), ErrorLine(3, "y"),
     UnknownLine, MalformedLine, NonDataLine}

SeqsUpTo(S, n) == UNION {[1..k -> S] : k \in 0..n}

(* Errors the handlers return.  kind names the fmt.Errorf / errors.New     *)
(* call by the spec's taxonomy; Code and Msg are the values formatted      *)
(* into the error text.                                                    *)
Err(kind, code, msg) == [kind |-> kind, Code |-> code, Msg |-> msg]
NoErr == Err("nil", 0, "")

(* adapter.CozecnReponseToOpenAIResponseStream followed by the overwrite   *)
(* of Model: the chunk carries the frame's content and the request's model *)
CozecnReponseToOpenAIResponseStream(response) ==
    [Content |-> response.Content, Model |-> ""]

StreamChunk(response, req) ==
    [CozecnReponseToOpenAIResponseStream(response) EXCEPT !.Model = req.Model]

(* Outcome of one iteration of the scan loop: the chunks written, the      *)
(* state after it and the value returned (if it returns).                  *)
Outcome(w, s, e) == [write |-> w, state |-> s, ret |-> e]

OnNonData_Error(line, req) ==
    Outcome(<<>>, "ERROR", Err("ProtocolError", 0, "no data prefix"))

OnNonData(line, req) == Outcome(<<>>, "STREAMING", NoErr)

OnUnmarshalError(line, req) ==
    Outcome(<<>>, "ERROR", Err("ProtocolError", 0, "unmarshal"))

OnMessage_NoVerboseCheck(line, req) ==
    Outcome(<<StreamChunk(line, req)>>, "STREAMING", NoErr)

OnMessage(line, req) ==
    IF line.Type = "verbose"
    THEN Outcome(<<>>, "STREAMING", NoErr)
    ELSE Outcome(<<StreamChunk(line, req)>>, "STREAMING", NoErr)

OnDone(line, req) == Outcome(<<>>, "DONE", NoErr)

OnError_Continue(line, req) ==
    Outcome(<<>>, "STREAMING", NoErr)

OnError(line, req) ==
    Outcome(<<>>, "ERROR", Err("BackendError", line.Code, line.Msg))

OnDefault_Skip(line, req) == Outcome(<<>>, "STREAMING", NoErr)

OnDefault(line, req) ==
    Outcome(<<>>, "ERROR", Err("ProtocolError", 0, "message error"))

HandleLine(line, req) ==
    IF ~line.hasPrefix THEN OnNonData(line, req)
    ELSE IF ~line.decodes THEN OnUnmarshalError(line, req)
    ELSE CASE line.Event = "message" -> OnMessage(line, req)
           [] line.Event = "done" -> OnDone(line, req)
           [] line.Event = "error" -> OnError(line, req)
           [] OTHER -> OnDefault(line, req)

\* a non-streaming body: whether io.ReadAll and json.Unmarshal succeed, and
\* the fields of cozecn.Response
Envelope(readOK, decodes, code, msg, content, model) ==
    [readOK |-> readOK, decodes |-> decodes, Code |-> code, Msg |-> msg,
     Content |-> content, Model |-> model]
NoEnvelope == Envelope(TRUE, FALSE, 0, "", "", "")

StreamInit ==
    /\ body \in SeqsUpTo(Lines, MaxLines)
    /\ readErr \in BOOLEAN
    /\ oaiReq = [Model |-> "gpt-4", Stream |-> TRUE]
    /\ scanned = 0
    /\ written = <<>>
    /\ state = "STREAMING"
    /\ ret = NoErr
    /\ connected = TRUE
    /\ failedWrites = 0
    /\ streamer = 0
    /\ envelope = NoEnvelope
    /\ completions = <<>>

\* errors of the WriteString calls of one iteration: every write fails once
\* the consumer has gone; the error is logged and nothing else
WriteErrors(chunks, isConnected) ==
    IF isConnected THEN 0 ELSE Len(chunks)

ScannerErr_Ignored(failed) == NoErr

\* if err := scanner.Err(); err != nil { return fmt.Errorf(...) }; return nil
ScannerErr(failed) ==
    IF failed THEN Err("TransportError", 0, "read") ELSE NoErr

(* One iteration of `for scanner.Scan()` that delivers a line.             *)
ScanLine ==
    /\ state = "STREAMING"
    /\ scanned < Len(body)
    /\ LET o == HandleLine(body[scanned + 1], oaiReq) IN
        /\ scanned' = scanned + 1
        /\ written' = written \o o.write
        /\ state' = o.state
        /\ ret' = o.ret
        /\ failedWrites' = failedWrites + WriteErrors(o.write, connected)
    /\ UNCHANGED <<body, readErr, oaiReq, connected, streamer, envelope, completions>>
    /\ UNCHANGED <<configVars, governorVars, lookupVars, flowVars>>

(* Scan() returns false: the loop ends and scanner.Err() decides.          *)
ScanEnd ==
    /\ state = "STREAMING"
    /\ scanned = Len(body)
    /\ state' = "EOF"
    /\ ret' = ScannerErr(readErr)
    /\ UNCHANGED <<body, readErr, oaiReq, scanned, written, connected,
                   failedWrites, streamer, envelope, completions>>
    /\ UNCHANGED <<configVars, governorVars, lookupVars, flowVars>>

(* The consumer goes away while the response is streamed.                  *)
Disconnect ==
    /\ state = "STREAMING"
    /\ connected
    /\ connected' = FALSE
    /\ UNCHANGED <<body, readErr, oaiReq, scanned, written, state, ret,
                   failedWrites, streamer, envelope, completions>>
    /\ UNCHANGED <<configVars, governorVars, lookupVars, flowVars>>

StreamNext == ScanLine \/ ScanEnd \/ Disconnect

StreamIdle ==
    /\ body = <<>>
    /\ readErr = FALSE
    /\ oaiReq = [Model |-> "", Stream |-> FALSE]
    /\ scanned = 0
    /\ written = <<>>
    /\ state = "IDLE"
    /\ ret = NoErr
    /\ connected = TRUE
    /\ failedWrites = 0
    /\ streamer = 0
    /\ envelope = NoEnvelope
    /\ completions = <<>>

----------------------------------------------------------------------------
(* handleCozecnResponse: the response of one backend call *)

\* adapter.CozecnReponseToOpenAIResponse: the completion carries the
\* payload's content and whatever model name the payload has
CozecnReponseToOpenAIResponse(respJson) ==
    [Content |-> respJson.Content, Model |-> respJson.Model]

Completion_BackendModel(respJson, req) == CozecnReponseToOpenAIResponse(respJson)

\* myresp := adapter.CozecnReponseToOpenAIResponse(&respJson)
\* myresp.Model = oaiReq.Model
Completion(respJson, req) ==
    [CozecnReponseToOpenAIResponse(respJson) EXCEPT !.Model = req.Model]

\* the non-streaming branch: what is passed to c.JSON and what is returned
SyncOutcome(env, req) ==
    IF ~env.readOK THEN Outcome(<<>>, "ERROR", Err("TransportError", 0, "read"))
    ELSE IF ~env.decodes THEN Outcome(<<>>, "ERROR", Err("ProtocolError", 0, "json"))
    ELSE IF env.Code # 0 THEN Outcome(<<>>, "ERROR", Err("BackendError", env.Code, env.Msg))
    ELSE Outcome(<<Completion(env, req)>>, "DONE", NoErr)

Envelopes ==
    {Envelope(r, d, code, msg, content, model) :
        r \in BOOLEAN, d \in BOOLEAN, code \in {0, 7, -1}, msg \in {"", "quota"},
        content \in {"hi", "yo"}, model \in {"bot-1", "gpt-4"}}

SyncBodies == {<<>>, <<MessageLine("answer", "A"), DoneLine>>}

SyncInit ==
    /\ envelope \in Envelopes
    /\ oaiReq \in [Model : {"gpt-4", "my-alias"}, Stream : BOOLEAN]
    /\ body \in SyncBodies
    /\ readErr = FALSE
    /\ scanned = 0
    /\ written = <<>>
    /\ state = "RECEIVED"
    /\ ret = NoErr
    /\ connected = TRUE
    /\ failedWrites = 0
    /\ streamer = 0
    /\ completions = <<>>

(* A streaming request hands the body to handleCozecnStreamResponse, whose *)
(* steps are ScanLine and ScanEnd; any other request is answered at once.  *)
handleCozecnResponse ==
    /\ state = "RECEIVED"
    /\ IF oaiReq.Stream
       THEN /\ state' = "STREAMING"
            /\ UNCHANGED <<ret, completions>>
       ELSE LET o == SyncOutcome(envelope, oaiReq) IN
            /\ completions' = completions \o o.write
            /\ state' = o.state
            /\ ret' = o.ret
    /\ UNCHANGED <<body, readErr, oaiReq, scanned, written, connected,
                   failedWrites, streamer, envelope>>
    /\ UNCHANGED <<configVars, governorVars, lookupVars, flowVars>>

SyncNext == handleCozecnResponse \/ ScanLine \/ ScanEnd

----------------------------------------------------------------------------
(* package config: the configuration document *)

defaultLimitTimeout == 10

\* services in the order the document declares them
ServiceNames == <<"alpha", "beta">>
ServiceSet == {ServiceNames[i] : i \in 1..Len(ServiceNames)}
ModelNames == {"m1", "m2", "m3"}

Limit(qps, qpm, concurrency, timeout) ==
    [QPS |-> qps, QPM |-> qpm, Concurrency |-> concurrency, Timeout |-> timeout]

\* a nil *rate.Limiter / a rate.Limiter refilling num tokens per den seconds
NilLimiter == [isNil |-> TRUE, num |-> 0, den |-> 1, burst |-> 0]
\* a nil channel / a channel of capacity cap holding fill permits when made
NilChan == [isNil |-> TRUE, cap |-> 0, fill |-> 0]

\* a ServiceModel as json.Unmarshal leaves it: the json:"-" fields are zero
ServiceModel(models, enabled, modelMap, limit) ==
    [Models |-> models, Enabled |-> enabled, ModelMap |-> modelMap,
     Limit |-> limit, Limiter |-> NilLimiter, Timeout |-> 0,
     ConcurrencyLimiter |-> NilChan]

\* ModelDetails; slot is the position of the entry in its service's list and
\* stands for the identity of the entry (the Limiter pointer and the channel
\* that all copies of one entry share)
ModelDetails(serviceName, slot, model) ==
    [ServiceName |-> serviceName, slot |-> slot, ServiceModel |-> model]

EntryKey(d) == <<d.ServiceName, d.slot>>

Configuration(loadBalancing, services) ==
    [LoadBalancing |-> loadBalancing, Services |-> services]

----------------------------------------------------------------------------
(* createModelToServiceMap *)

NewLimiterQPS_DoubleBurst(qps) ==
    [isNil |-> FALSE, num |-> qps, den |-> 1, burst |-> 2 * qps]

\* rate.NewLimiter(rate.Limit(qps), qps)
NewLimiterQPS(qps) == [isNil |-> FALSE, num |-> qps, den |-> 1, burst |-> qps]

\* rate.NewLimiter(rate.Every(1*time.Minute/time.Duration(qpm)), qpm)
NewLimiterQPM(qpm) == [isNil |-> FALSE, num |-> qpm, den |-> 60, burst |-> qpm]

NewSemaphore_NoPrefill(n) == [isNil |-> FALSE, cap |-> n, fill |-> 0]

\* make(chan struct{}, n) followed by n sends
NewSemaphore(n) == [isNil |-> FALSE, cap |-> n, fill |-> n]

SelectGovernor_ConcurrencyFirst(limit) ==
    IF limit.Concurrency > 0
    THEN [Limiter |-> NilLimiter, ConcurrencyLimiter |-> NewSemaphore(limit.Concurrency)]
    ELSE IF limit.QPS > 0
    THEN [Limiter |-> NewLimiterQPS(limit.QPS), ConcurrencyLimiter |-> NilChan]
    ELSE IF limit.QPM > 0
    THEN [Limiter |-> NewLimiterQPM(limit.QPM), ConcurrencyLimiter |-> NilChan]
    ELSE [Limiter |-> NilLimiter, ConcurrencyLimiter |-> NilChan]

\* the if / else if / else that picks the limiter or the semaphore
SelectGovernor(limit) ==
    IF limit.QPS > 0
    THEN [Limiter |-> NewLimiterQPS(limit.QPS), ConcurrencyLimiter |-> NilChan]
    ELSE IF limit.QPM > 0
    THEN [Limiter |-> NewLimiterQPM(limit.QPM), ConcurrencyLimiter |-> NilChan]
    ELSE IF limit.Concurrency > 0
    THEN [Limiter |-> NilLimiter, ConcurrencyLimiter |-> NewSemaphore(limit.Concurrency)]
    ELSE [Limiter |-> NilLimiter, ConcurrencyLimiter |-> NilChan]

EffectiveTimeout_AsConfigured(limit) ==
    IF limit.Timeout >= 0 THEN limit.Timeout ELSE defaultLimitTimeout

\* model.Timeout = defaultLimitTimeout; if model.Limit.Timeout > 0 {...}
EffectiveTimeout(limit) ==
    IF limit.Timeout > 0 THEN limit.Timeout ELSE defaultLimitTimeout

\* the entry as the loop body leaves it before it is copied into the details
BuildEntry(model) ==
    LET g == SelectGovernor(model.Limit) IN
    [model EXCEPT !.Limiter = g.Limiter,
                  !.ConcurrencyLimiter = g.ConcurrencyLimiter,
                  !.Timeout = EffectiveTimeout(model.Limit)]

AppendDetail_FixedKey(index, modelName, detail) ==
    IF "m1" \in DOMAIN index
    THEN [index EXCEPT !["m1"] = Append(@, detail)]
    ELSE index @@ ("m1" :> <<detail>>)

\* modelToService[modelName] = append(modelToService[modelName], detail)
AppendDetail(index, modelName, detail) ==
    IF modelName \in DOMAIN index
    THEN [index EXCEPT ![modelName] = Append(@, detail)]
    ELSE index @@ (modelName :> <<detail>>)

\* for _, modelName := range model.Models
RECURSIVE IndexModels(_, _, _)
IndexModels(index, names, detail) ==
    IF names = <<>> THEN index
    ELSE IndexModels(AppendDetail(index, Head(names), detail), Tail(names), detail)

\* for _, model := range serviceModels, from position slot on
RECURSIVE IndexService(_, _, _, _)
IndexService(index, serviceName, serviceModels, slot) ==
    IF slot > Len(serviceModels) THEN index
    ELSE LET model == serviceModels[slot]
             next == IF model.Enabled
                     THEN IndexModels(index, model.Models,
                              ModelDetails(serviceName, slot, BuildEntry(model)))
                     ELSE index
         IN IndexService(next, serviceName, serviceModels, slot + 1)

\* for serviceName, serviceModels := range config.Services, the services
\* visited in the given order
RECURSIVE createModelToServiceMap(_, _, _)
createModelToServiceMap(config, order, index) ==
    IF order = <<>> THEN index
    ELSE createModelToServiceMap(config, Tail(order),
             IndexService(index, Head(order), config.Services[Head(order)], 1))

\* the orders in which range may visit the keys of a Go map: any order
RangeOrders(keys) ==
    {o \in [1..Cardinality(keys) -> keys] :
        \A i, j \in 1..Cardinality(keys) : i # j => o[i] # o[j]}

\* the details the index holds, each entry once
IndexedDetails(index) ==
    UNION {{index[m][i] : i \in 1..Len(index[m])} : m \in DOMAIN index}

\* the token buckets of the entries with a rate.Limiter: full, no credit
NewLimiters(index) ==
    LET ds == {d \in IndexedDetails(index) : ~d.ServiceModel.Limiter.isNil}
        limiterOf(k) == (CHOOSE d \in ds : EntryKey(d) = k).ServiceModel.Limiter
    IN [k \in {EntryKey(d) : d \in ds} |->
            [tokens |-> limiterOf(k).burst, credit |-> 0]]

\* the channels of the entries with a semaphore, holding what was sent
NewSemaphores(index) ==
    LET ds == {d \in IndexedDetails(index) : ~d.ServiceModel.ConcurrencyLimiter.isNil}
        chanOf(k) == (CHOOSE d \in ds : EntryKey(d) = k).ServiceModel.ConcurrencyLimiter
    IN [k \in {EntryKey(d) : d \in ds} |-> chanOf(k).fill]

----------------------------------------------------------------------------
(* InitConfig *)

\* if conf.LoadBalancing == "" { "random" } else { conf.LoadBalancing }
StrategyOf(config) ==
    IF config.LoadBalancing = "" THEN "random" ELSE config.LoadBalancing

InitConfig ==
    /\ phase = "start"
    /\ \E order \in RangeOrders(DOMAIN conf.Services) :
          LET index == createModelToServiceMap(conf, order, <<>>) IN
          /\ ModelToService' = index
          /\ limiters' = NewLimiters(index)
          /\ semaphores' = NewSemaphores(index)
          /\ granted' = [k \in DOMAIN NewLimiters(index) |-> 0]
    /\ LoadBalancingStrategy' = StrategyOf(conf)
    /\ phase' = "serving"
    /\ UNCHANGED <<conf, lookupVars, streamVars, flowVars>>

----------------------------------------------------------------------------
(* Lookups *)

NoDetail == [ServiceName |-> "", slot |-> 0]
Result(op, model, err, detail) ==
    [op |-> op, model |-> model, err |-> err, detail |-> detail]
NoResult == Result("none", "", "nil", NoDetail)
NoMapping == [s |-> NoDetail, model |-> "", out |-> ""]

EnabledOnly_Inverted(serviceDetails) ==
    SelectSeq(serviceDetails, LAMBDA sd : ~sd.ServiceModel.Enabled)

\* for _, sd := range serviceDetails { if sd.Enabled { append } }
EnabledOnly(serviceDetails) ==
    SelectSeq(serviceDetails, LAMBDA sd : sd.ServiceModel.Enabled)

PickIndices_Random(strategy, n) == 1..n

PickIndices_FirstOnly(strategy, n) == {1}

PickIndices_DefaultFirst(strategy, n) ==
    IF strategy = "random" THEN 1..n ELSE {1}

\* switch LoadBalancingStrategy: the indices the call may select among n
PickIndices(strategy, n) ==
    IF strategy = "first" THEN {1} ELSE 1..n

\* the results GetModelService(modelName) may return
GetModelServiceResults(index, strategy, modelName) ==
    IF modelName \in DOMAIN index
    THEN LET enabledServices == EnabledOnly(index[modelName]) IN
         IF Len(enabledServices) = 0
         THEN {Result("GetModelService", modelName, "NoEnabledService", NoDetail)}
         ELSE {Result("GetModelService", modelName, "nil", enabledServices[i]) :
                  i \in PickIndices(strategy, Len(enabledServices))}
    ELSE {Result("GetModelService", modelName, "NotFound", NoDetail)}

GetModelService(modelName) ==
    /\ phase = "serving"
    /\ \E r \in GetModelServiceResults(ModelToService, LoadBalancingStrategy, modelName) :
          /\ last' = r
          /\ firstResult' =
                IF r.err # "nil" THEN firstResult
                ELSE IF modelName \in DOMAIN firstResult
                THEN [firstResult EXCEPT ![modelName].again = TRUE]
                ELSE firstResult @@ (modelName :> [detail |-> r.detail, again |-> FALSE])
    /\ UNCHANGED mapped
    /\ UNCHANGED <<configVars, governorVars, streamVars, flowVars>>

----------------------------------------------------------------------------
(* Specification of the lookups *)

NoLimit == Limit(0, 0, 0, 0)
NoModelMap == <<>>

RegEntries ==
    {ServiceModel(models, enabled, NoModelMap, NoLimit) :
        models \in {<<"m1">>, <<"m1", "m2">>}, enabled \in BOOLEAN}

RegServices ==
    {services \in [ServiceSet -> SeqsUpTo(RegEntries, MaxEntries)] :
        \A n \in ServiceSet \ {ServiceNames[1]} : Len(services[n]) <= MaxOtherEntries}

RegInit ==
    /\ conf \in {Configuration(lb, services) :
                    lb \in {"", "first", "random", "round_robin"},
                    services \in RegServices}
    /\ phase = "start"
    /\ LoadBalancingStrategy = ""
    /\ ModelToService = <<>>
    /\ limiters = <<>>
    /\ semaphores = <<>>
    /\ granted = <<>>
    /\ last = NoResult
    /\ firstResult = <<>>
    /\ mapped = NoMapping

RegNext ==
    \/ InitConfig
    \/ \E modelName \in ModelNames : GetModelService(modelName)

----------------------------------------------------------------------------
(* GetRandomEnabledModelDetailsV1 and GetModelMapping *)

\* enabledModels: every ModelDetails of the index whose entry is enabled
GetRandomEnabledModelDetails(index) ==
    {d \in IndexedDetails(index) : d.ServiceModel.Enabled}

\* the results of GetRandomEnabledModelDetailsV1 over the choices of rand.Intn;
\* rand.Intn(0) panics
GetRandomEnabledModelDetailsV1Results(index) ==
    LET op == "GetRandomEnabledModelDetailsV1"
        enabledModels == GetRandomEnabledModelDetails(index)
    IN IF enabledModels = {}
       THEN {Result(op, "", "no enabled ModelDetails found", NoDetail)}
       ELSE UNION {IF Len(md.ServiceModel.Models) = 0
                   THEN {Result(op, "", "panic", md)}
                   ELSE {Result(op, md.ServiceModel.Models[i], "nil", md) :
                            i \in 1..Len(md.ServiceModel.Models)} :
                   md \in enabledModels}

GetRandomEnabledModelDetailsV1 ==
    /\ phase = "serving"
    /\ \E r \in GetRandomEnabledModelDetailsV1Results(ModelToService) : last' = r
    /\ UNCHANGED <<firstResult, mapped>>
    /\ UNCHANGED <<configVars, governorVars, streamVars, flowVars>>

GetModelMappingResult_Identity(s, model) == model

\* if mappedModel, exists := s.ModelMap[model]; exists {...}; return model
GetModelMappingResult(s, model) ==
    IF model \in DOMAIN s.ServiceModel.ModelMap
    THEN s.ServiceModel.ModelMap[model]
    ELSE model

GetModelMapping(s, model) ==
    /\ phase = "serving"
    /\ mapped' = [s |-> s, model |-> model, out |-> GetModelMappingResult(s, model)]
    /\ UNCHANGED <<last, firstResult>>
    /\ UNCHANGED <<configVars, governorVars, streamVars, flowVars>>

MaxIdxEntries == 2

IdxModelMaps == {NoModelMap, "m1" :> "backend-1"}

IdxEntries ==
    {ServiceModel(models, enabled, modelMap, NoLimit) :
        models \in {<<>>, <<"m1">>, <<"m2", "m1">>}, enabled \in BOOLEAN,
        modelMap \in IdxModelMaps}

IdxServices ==
    {services \in [ServiceSet -> SeqsUpTo(IdxEntries, MaxIdxEntries)] :
        \A n \in ServiceSet \ {ServiceNames[1]} :
            services[n] \in {<<>>, <<ServiceModel(<<"m1">>, TRUE, NoModelMap, NoLimit)>>}}

IdxInit ==
    /\ conf \in {Configuration("first", services) : services \in IdxServices}
    /\ phase = "start"
    /\ LoadBalancingStrategy = ""
    /\ ModelToService = <<>>
    /\ limiters = <<>>
    /\ semaphores = <<>>
    /\ granted = <<>>
    /\ last = NoResult
    /\ firstResult = <<>>
    /\ mapped = NoMapping

IdxNext ==
    \/ InitConfig
    \/ GetRandomEnabledModelDetailsV1
    \/ \E s \in IndexedDetails(ModelToService), model \in ModelNames :
          GetModelMapping(s, model)

----------------------------------------------------------------------------
(* Request flows: lookup, Acquire, (dispatch), Release *)

Flows == 1..NumFlows

\* the governor of an entry can serve an acquire now
Available(d) ==
    LET k == EntryKey(d) IN
    IF ~d.ServiceModel.Limiter.isNil THEN limiters[k].tokens > 0
    ELSE IF ~d.ServiceModel.ConcurrencyLimiter.isNil THEN semaphores[k] > 0
    ELSE TRUE

\* take one token / one permit of the entry (nothing for an unlimited entry)
Take(d) ==
    LET k == EntryKey(d) IN
    IF ~d.ServiceModel.Limiter.isNil
    THEN /\ limiters' = [limiters EXCEPT ![k].tokens = @ - 1]
         /\ granted' = [granted EXCEPT ![k] = @ + 1]
         /\ UNCHANGED semaphores
    ELSE IF ~d.ServiceModel.ConcurrencyLimiter.isNil
    THEN /\ semaphores' = [semaphores EXCEPT ![k] = @ - 1]
         /\ UNCHANGED <<limiters, granted>>
    ELSE UNCHANGED <<limiters, semaphores, granted>>

\* a flow starts a request: GetModelService, then Acquire(s.Timeout), which
\* succeeds at once, fails at once (timeout 0) or blocks
Request(f, modelName) ==
    /\ phase = "serving"
    /\ pc[f] \in {"idle", "failed"}
    /\ \E r \in GetModelServiceResults(ModelToService, LoadBalancingStrategy, modelName) :
          IF r.err # "nil"
          THEN /\ pc' = [pc EXCEPT ![f] = "failed"]
               /\ flowErr' = [flowErr EXCEPT ![f] = r.err]
               /\ held' = [held EXCEPT ![f] = NoDetail]
               /\ waited' = [waited EXCEPT ![f] = 0]
               /\ UNCHANGED governorVars
          ELSE /\ held' = [held EXCEPT ![f] = r.detail]
               /\ waited' = [waited EXCEPT ![f] = 0]
               /\ IF Available(r.detail)
                  THEN /\ Take(r.detail)
                       /\ pc' = [pc EXCEPT ![f] = "holding"]
                       /\ flowErr' = [flowErr EXCEPT ![f] = "nil"]
                  ELSE IF r.detail.ServiceModel.Timeout <= 0
                  THEN /\ pc' = [pc EXCEPT ![f] = "failed"]
                       /\ flowErr' = [flowErr EXCEPT ![f] = "ResourceExhausted"]
                       /\ UNCHANGED governorVars
                  ELSE /\ pc' = [pc EXCEPT ![f] = "waiting"]
                       /\ flowErr' = [flowErr EXCEPT ![f] = "nil"]
                       /\ UNCHANGED governorVars
    /\ UNCHANGED <<configVars, lookupVars, streamVars>>

\* a blocked Acquire gets the token / permit that has become available
AcquireGrant(f) ==
    /\ pc[f] = "waiting"
    /\ Available(held[f])
    /\ Take(held[f])
    /\ pc' = [pc EXCEPT ![f] = "holding"]
    /\ waited' = [waited EXCEPT ![f] = 0]
    /\ UNCHANGED <<held, flowErr, configVars, lookupVars, streamVars>>

\* a blocked Acquire gives up when its timeout has elapsed
AcquireTimeout(f) ==
    /\ pc[f] = "waiting"
    /\ ~Available(held[f])
    /\ waited[f] >= held[f].ServiceModel.Timeout
    /\ pc' = [pc EXCEPT ![f] = "failed"]
    /\ flowErr' = [flowErr EXCEPT ![f] = "ResourceExhausted"]
    /\ UNCHANGED <<held, waited, governorVars, configVars, lookupVars, streamVars>>

\* the request is over: a permit goes back to the channel, a token does not
Release(f) ==
    /\ pc[f] = "holding"
    /\ pc' = [pc EXCEPT ![f] = "idle"]
    /\ IF ~held[f].ServiceModel.ConcurrencyLimiter.isNil
       THEN semaphores' = [semaphores EXCEPT ![EntryKey(held[f])] = @ + 1]
       ELSE UNCHANGED semaphores
    /\ held' = [held EXCEPT ![f] = NoDetail]
    /\ UNCHANGED <<limiters, granted, waited, flowErr>>
    /\ UNCHANGED <<configVars, lookupVars, streamVars>>

Min(a, b) == IF a < b THEN a ELSE b

\* one time unit of refill of a token bucket: num tokens per den time units,
\* never above burst; a full bucket keeps no credit
Refill(limiter, bucket) ==
    LET c == bucket.credit + limiter.num
        t == Min(limiter.burst, bucket.tokens + (c \div limiter.den))
    IN [tokens |-> t, credit |-> IF t = limiter.burst THEN 0 ELSE c % limiter.den]

LimiterOf(k) ==
    (CHOOSE d \in IndexedDetails(ModelToService) : EntryKey(d) = k).ServiceModel.Limiter

\* one time unit passes; a blocked Acquire that can be served or has timed
\* out acts before time moves on
Tick ==
    /\ phase = "serving"
    /\ \A f \in Flows :
          pc[f] = "waiting" =>
              /\ ~Available(held[f])
              /\ waited[f] < held[f].ServiceModel.Timeout
    /\ waited' = [f \in Flows |-> IF pc[f] = "waiting" THEN waited[f] + 1 ELSE waited[f]]
    /\ limiters' = [k \in DOMAIN limiters |-> Refill(LimiterOf(k), limiters[k])]
    /\ granted' = [k \in DOMAIN granted |-> 0]
    /\ UNCHANGED <<semaphores, pc, held, flowErr>>
    /\ UNCHANGED <<configVars, lookupVars, streamVars>>

\* limits of the entries of the governor specification: every combination
\* of set / unset qps, qpm and concurrency; a bucket refilled per minute is
\* only combined with a timeout of 1
GovLimits ==
    {l \in {Limit(qps, qpm, concurrency, timeout) :
                qps \in {0, 2}, qpm \in {0, 1}, concurrency \in {0, 2},
                timeout \in {0, 1}} :
        (l.QPS = 0 /\ l.QPM > 0) => l.Timeout = 1}
    \cup {Limit(5, 0, 0, 1)}

\* the model names the flows ask for: a declared one and an undeclared one
GovModels == {"m1", "m3"}

GovInit ==
    /\ conf \in {Configuration("first",
                      [s \in ServiceSet |->
                          IF s = "alpha"
                          THEN <<ServiceModel(<<"m1", "m2">>, TRUE, NoModelMap, limit)>>
                          ELSE <<>>]) :
                    limit \in GovLimits}
    /\ phase = "start"
    /\ LoadBalancingStrategy = ""
    /\ ModelToService = <<>>
    /\ limiters = <<>>
    /\ semaphores = <<>>
    /\ granted = <<>>
    /\ last = NoResult
    /\ firstResult = <<>>
    /\ mapped = NoMapping

GovNext ==
    \/ InitConfig
    \/ \E f \in Flows, modelName \in GovModels : Request(f, modelName)
    \/ \E f \in Flows : AcquireGrant(f)
    \/ \E f \in Flows : AcquireTimeout(f)
    \/ \E f \in Flows : Release(f)
    \/ Tick

----------------------------------------------------------------------------
(* Streaming request flows: lookup, Acquire, handleCozecnStreamResponse,   *)
(* Release.  The handler runs inside the flow that holds the permit and    *)
(* returns only when the stream is over; invocations of the handler share  *)
(* no state, so one response at a time is followed line by line.           *)

\* the response bodies of the streaming flows: one ending with a done
\* frame, one with an error frame, one at end of input, one with a frame
\* of unknown kind
FlowBodies ==
    {<<MessageLine("answer", "A"), DoneLine>>,
     <<MessageLine("answer", "A"), ErrorLine(7, "x")>>,
     <<MessageLine("answer", "A")>>,
     <<UnknownLine>>}

\* the flow that holds a permit sends the request and starts reading the
\* streamed response
Dispatch(f) ==
    /\ pc[f] = "holding"
    /\ streamer = 0
    /\ body' \in FlowBodies
    /\ readErr' \in BOOLEAN
    /\ oaiReq' = [Model |-> "gpt-4", Stream |-> TRUE]
    /\ scanned' = 0
    /\ written' = <<>>
    /\ state' = "STREAMING"
    /\ ret' = NoErr
    /\ connected' = TRUE
    /\ failedWrites' = 0
    /\ streamer' = f
    /\ pc' = [pc EXCEPT ![f] = "streaming"]
    /\ UNCHANGED <<envelope, completions, held, waited, flowErr>>
    /\ UNCHANGED <<configVars, governorVars, lookupVars>>

ReleaseStream_Early(f) ==
    /\ pc[f] = "streaming"
    /\ streamer = f
    /\ pc' = [pc EXCEPT ![f] = "idle"]
    /\ IF ~held[f].ServiceModel.ConcurrencyLimiter.isNil
       THEN semaphores' = [semaphores EXCEPT ![EntryKey(held[f])] = @ + 1]
       ELSE UNCHANGED semaphores
    /\ held' = [held EXCEPT ![f] = NoDetail]
    /\ streamer' = 0
    /\ UNCHANGED <<limiters, granted, waited, flowErr>>
    /\ UNCHANGED <<body, readErr, oaiReq, scanned, written, state, ret,
                   connected, failedWrites, envelope, completions>>
    /\ UNCHANGED <<configVars, lookupVars>>

\* the handler has returned (done frame, error, end of input): the flow
\* gives its permit back
ReleaseStream(f) ==
    /\ pc[f] = "streaming"
    /\ streamer = f
    /\ state \in {"DONE", "ERROR", "EOF"}
    /\ pc' = [pc EXCEPT ![f] = "idle"]
    /\ IF ~held[f].ServiceModel.ConcurrencyLimiter.isNil
       THEN semaphores' = [semaphores EXCEPT ![EntryKey(held[f])] = @ + 1]
       ELSE UNCHANGED semaphores
    /\ held' = [held EXCEPT ![f] = NoDetail]
    /\ streamer' = 0
    /\ UNCHANGED <<limiters, granted, waited, flowErr>>
    /\ UNCHANGED <<body, readErr, oaiReq, scanned, written, state, ret,
                   connected, failedWrites, envelope, completions>>
    /\ UNCHANGED <<configVars, lookupVars>>

FlowInit ==
    /\ conf \in {Configuration("first",
                      [s \in ServiceSet |->
                          IF s = "alpha"
                          THEN <<ServiceModel(<<"m1", "m2">>, TRUE, NoModelMap,
                                              Limit(0, 0, concurrency, 1))>>
                          ELSE <<>>]) :
                    concurrency \in {1, 2}}
    /\ phase = "start"
    /\ LoadBalancingStrategy = ""
    /\ ModelToService = <<>>
    /\ limiters = <<>>
    /\ semaphores = <<>>
    /\ granted = <<>>
    /\ last = NoResult
    /\ firstResult = <<>>
    /\ mapped = NoMapping

FlowNext ==
    \/ InitConfig
    \/ \E f \in Flows, modelName \in GovModels : Request(f, modelName)
    \/ \E f \in Flows : AcquireGrant(f)
    \/ \E f \in Flows : AcquireTimeout(f)
    \/ Tick
    \/ \E f \in Flows : Dispatch(f)
    \/ ScanLine
    \/ ScanEnd
    \/ Disconnect
    \/ \E f \in Flows : ReleaseStream(f)

----------------------------------------------------------------------------
(* Specifications *)

vars == <<streamVars, configVars, governorVars, lookupVars, flowVars>>

ConfigIdle ==
    /\ conf = Configuration("", [s \in ServiceSet |-> <<>>])
    /\ phase = "start"
    /\ LoadBalancingStrategy = ""
    /\ ModelToService = <<>>
    /\ limiters = <<>>
    /\ semaphores = <<>>
    /\ granted = <<>>
    /\ last = NoResult
    /\ firstResult = <<>>
    /\ mapped = NoMapping

FlowsIdle ==
    /\ pc = [f \in Flows |-> "idle"]
    /\ held = [f \in Flows |-> NoDetail]
    /\ waited = [f \in Flows |-> 0]
    /\ flowErr = [f \in Flows |-> "nil"]

InitStream == StreamInit /\ ConfigIdle /\ FlowsIdle
InitReg == RegInit /\ StreamIdle /\ FlowsIdle
InitGov == GovInit /\ StreamIdle /\ FlowsIdle
InitSync == SyncInit /\ ConfigIdle /\ FlowsIdle
InitIdx == IdxInit /\ StreamIdle /\ FlowsIdle
InitFlow == FlowInit /\ StreamIdle /\ FlowsIdle

SpecStream == InitStream /\ [][StreamNext]_vars

SpecReg == InitReg /\ [][RegNext]_vars

SpecGov == InitGov /\ [][GovNext]_vars

SpecSync == InitSync /\ [][SyncNext]_vars

SpecIdx == InitIdx /\ [][IdxNext]_vars

SpecFlow == InitFlow /\ [][FlowNext]_vars

----------------------------------------------------------------------------
(* Properties of the streaming translator *)

IsMessage(line) == line.hasPrefix /\ line.decodes /\ line.Event = "message"
IsDone(line) == line.hasPrefix /\ line.decodes /\ line.Event = "done"
IsErrorFrame(line) == line.hasPrefix /\ line.decodes /\ line.Event = "error"
\* a data line that ends the loop: done, error, unknown kind or undecodable
IsTerminator(line) == line.hasPrefix /\ ~IsMessage(line)

\* index of the first line of s satisfying P, Len(s) + 1 if there is none
FirstIndex(s, P(_)) ==
    IF \E i \in 1..Len(s) : P(s[i])
    THEN CHOOSE i \in 1..Len(s) : P(s[i]) /\ \A j \in 1..(i - 1) : ~P(s[j])
    ELSE Len(s) + 1

\* the chunks of the non-verbose message frames of s, in order
RECURSIVE ExpectedChunks(_, _)
ExpectedChunks(s, model) ==
    IF s = <<>> THEN <<>>
    ELSE LET h == Head(s) IN
         (IF IsMessage(h) /\ h.Type # "verbose"
          THEN <<[Content |-> h.Content, Model |-> model]>> ELSE <<>>)
         \o ExpectedChunks(Tail(s), model)

\* C1 (as stated): once the handler has returned, the chunks written are
\* exactly the non-verbose message frames that precede the first done frame
\* of the input, whatever other frames the input holds.
C1_ChunksBeforeFirstDone ==
    state \in {"DONE", "ERROR", "EOF"} =>
        written = ExpectedChunks(SubSeq(body, 1, FirstIndex(body, IsDone) - 1),
                                 oaiReq.Model)

\* C1 (amended): the chunks written are exactly the non-verbose message
\* frames that precede the first terminating frame (done, error, unknown
\* kind or undecodable data line), one chunk per frame and in order; verbose
\* frames write nothing and do not end the stream; no line after the
\* terminating frame is read, and a done frame ends in DONE with nil.
C1_ChunksBeforeFirstTerminator ==
    LET t == FirstIndex(body, IsTerminator) IN
    /\ scanned <= t
    /\ written = ExpectedChunks(SubSeq(body, 1, scanned), oaiReq.Model)
    /\ state \in {"DONE", "ERROR", "EOF"} =>
          written = ExpectedChunks(SubSeq(body, 1, t - 1), oaiReq.Model)
    /\ \A i \in 1..scanned :
          /\ IsMessage(body[i]) /\ i = scanned => state \in {"STREAMING", "EOF"}
          /\ IsDone(body[i]) => i = scanned /\ state = "DONE" /\ ret = NoErr

C1_Witness ==
    /\ body = <<MessageLine("answer", "A"), MessageLine("verbose", "A"),
                MessageLine("answer", "B"), DoneLine>>
    /\ state = "DONE"
    /\ written = <<[Content |-> "A", Model |-> "gpt-4"],
                   [Content |-> "B", Model |-> "gpt-4"]>>

\* C2: an error frame with code c and message m ends the stream at that
\* frame: the chunks of the non-verbose message frames before it have been
\* written, the handler returns the backend error carrying c and m, and no
\* later line is read and no further chunk written.
C2_ErrorFrameStops ==
    \A i \in 1..scanned :
        IsErrorFrame(body[i]) =>
            /\ i = scanned
            /\ state = "ERROR"
            /\ ret = Err("BackendError", body[i].Code, body[i].Msg)
            /\ written = ExpectedChunks(SubSeq(body, 1, i - 1), oaiReq.Model)

C2_Witness ==
    /\ body = <<MessageLine("answer", "A"), ErrorLine(7, "x")>>
    /\ state = "ERROR"
    /\ ret = Err("BackendError", 7, "x")
    /\ written = <<[Content |-> "A", Model |-> "gpt-4"]>>

\* C15: once a write to the consumer has failed the handler stops: no
\* further chunk is written for the remaining frames (so no second write
\* fails) and the stream is over.
C15_StopsAfterFailedWrite ==
    failedWrites >= 1 => (failedWrites = 1 /\ state # "STREAMING")

\* a data line that is undecodable or of a kind other than message, done, error
IsMalformedData(line) ==
    line.hasPrefix /\ (~line.decodes \/ line.Event \notin {"message", "done", "error"})

\* C17 (as stated): every line that is undecodable, of unknown kind or not
\* a data frame at all ends the stream in ERROR with a ProtocolError,
\* writes no chunk, and no later line is read.
C17_EveryUnknownLineFails ==
    \A i \in 1..scanned :
        (IsMalformedData(body[i]) \/ ~body[i].hasPrefix) =>
            /\ i = scanned
            /\ state = "ERROR"
            /\ ret.kind = "ProtocolError"
            /\ written = ExpectedChunks(SubSeq(body, 1, i - 1), oaiReq.Model)

\* C17 (amended): every data line (a line with the "data:" marker) whose
\* payload does not decode or whose event kind is not message, done or
\* error ends the stream in ERROR with a ProtocolError, writes no chunk,
\* and no later line is read.
C17_MalformedDataLineFails ==
    \A i \in 1..scanned :
        IsMalformedData(body[i]) =>
            /\ i = scanned
            /\ state = "ERROR"
            /\ ret.kind = "ProtocolError"
            /\ written = ExpectedChunks(SubSeq(body, 1, i - 1), oaiReq.Model)

C17_Witness ==
    /\ body = <<MessageLine("answer", "A"), UnknownLine, MessageLine("answer", "B")>>
    /\ state = "ERROR"
    /\ ret.kind = "ProtocolError"
    /\ scanned = 2
    /\ Len(written) = 1

\* C18: the handler ends at end of input only when every line was read and
\* none ended the stream; it then returns the transport error if the read
\* failed and nil otherwise, with every chunk of the input written and
\* nothing more.  While it streams it can always take a step, and every
\* step reads one more line of the finite input or ends the stream, so
\* it ends in DONE, ERROR or at end of input.
C18_EndOfInput ==
    /\ [](/\ state \in {"STREAMING", "DONE", "ERROR", "EOF"}
          /\ scanned <= Len(body)
          /\ state = "STREAMING" => ENABLED (ScanLine \/ ScanEnd)
          /\ state = "EOF" =>
                /\ scanned = Len(body)
                /\ \A i \in 1..Len(body) : ~IsTerminator(body[i])
                /\ ret = (IF readErr THEN Err("TransportError", 0, "read") ELSE NoErr)
                /\ written = ExpectedChunks(body, oaiReq.Model))
    /\ [][/\ state = "STREAMING"
          /\ scanned' > scanned \/ state' # "STREAMING" \/ (connected /\ ~connected')
          /\ state' = "EOF" => written' = written]_vars

C18_Witness ==
    /\ state = "EOF"
    /\ readErr
    /\ ret.kind = "TransportError"
    /\ Len(written) = 2

\* the lines of s that carry the "data:" marker
DataLines(s) == SelectSeq(s, LAMBDA l : l.hasPrefix)

\* the whole loop on the given lines: chunks written, final state, value returned
RECURSIVE RunStream(_, _, _, _)
RunStream(lines, failed, req, chunks) ==
    IF lines = <<>>
    THEN Outcome(chunks, "EOF", ScannerErr(failed))
    ELSE LET o == HandleLine(Head(lines), req) IN
         IF o.state = "STREAMING"
         THEN RunStream(Tail(lines), failed, req, chunks \o o.write)
         ELSE Outcome(chunks \o o.write, o.state, o.ret)

\* C20: a line without the "data:" marker writes no chunk, raises no error
\* and leaves the stream open; the chunks written and the way the stream
\* ends are those of the same input without such lines.
C20_NonDataLinesIgnored ==
    /\ \A i \in 1..scanned :
          ~body[i].hasPrefix =>
              /\ i = scanned => state \in {"STREAMING", "EOF"}
              /\ state # "ERROR" \/ i < scanned
    /\ written = ExpectedChunks(DataLines(SubSeq(body, 1, scanned)), oaiReq.Model)
    /\ state \in {"DONE", "ERROR", "EOF"} =>
          Outcome(written, state, ret) = RunStream(DataLines(body), readErr, oaiReq, <<>>)

C20_Witness ==
    /\ body = <<NonDataLine, MessageLine("answer", "A"), NonDataLine, DoneLine>>
    /\ state = "DONE"
    /\ written = <<[Content |-> "A", Model |-> "gpt-4"]>>

\* C16: a non-streaming response whose envelope reads and decodes either
\* has a status code other than 0, and then the handler returns a
\* BackendError with the envelope's code and message and passes no
\* completion to the consumer, or has status code 0, and then exactly one
\* completion is passed, carrying the payload's content and the model name
\* of the original request whatever name the payload has.
C16_NonStreamingResponse ==
    /\ Len(completions) <= 1
    /\ state = "RECEIVED" => completions = <<>>
    /\ (state # "RECEIVED" /\ ~oaiReq.Stream /\ envelope.readOK /\ envelope.decodes) =>
          IF envelope.Code # 0
          THEN /\ ret = Err("BackendError", envelope.Code, envelope.Msg)
               /\ state = "ERROR"
               /\ completions = <<>>
          ELSE /\ ret = NoErr
               /\ state = "DONE"
               /\ completions = <<[Content |-> envelope.Content, Model |-> oaiReq.Model]>>

C16_Witness ==
    /\ ~oaiReq.Stream
    /\ state = "DONE"
    /\ envelope.Model = "bot-1"
    /\ oaiReq.Model = "my-alias"
    /\ completions = <<[Content |-> "hi", Model |-> "my-alias"]>>

----------------------------------------------------------------------------
(* Properties of the lookups *)

Range(s) == {s[i] : i \in 1..Len(s)}

\* the entries of the document that declare model name m, as <<service, slot>>
Declaring(m) ==
    {k \in ServiceSet \X (1..MaxEntries) :
        /\ k[2] <= Len(conf.Services[k[1]])
        /\ m \in Range(conf.Services[k[1]][k[2]].Models)}

DeclaringEnabled(m) ==
    {k \in Declaring(m) : conf.Services[k[1]][k[2]].Enabled}

\* k1 is declared before k2: its service comes first in the document, or
\* both are of one service and its slot is the smaller
DeclaredBefore(k1, k2) ==
    LET pos(n) == CHOOSE i \in 1..Len(ServiceNames) : ServiceNames[i] = n IN
    \/ pos(k1[1]) < pos(k2[1])
    \/ k1[1] = k2[1] /\ k1[2] < k2[2]

\* C3: for a model with at least one enabled entry, GetModelService under
\* every strategy returns an entry, and that entry is enabled and is an
\* entry of the document that declares the model name.
C3_LookupReturnsEnabledEntry ==
    (last.op = "GetModelService" /\ DeclaringEnabled(last.model) # {}) =>
        /\ last.err = "nil"
        /\ last.detail.ServiceModel.Enabled
        /\ last.model \in Range(last.detail.ServiceModel.Models)
        /\ EntryKey(last.detail) \in DeclaringEnabled(last.model)

C3_Witness ==
    /\ last.op = "GetModelService"
    /\ last.err = "nil"
    /\ LoadBalancingStrategy = "round_robin"
    /\ Declaring(last.model) # DeclaringEnabled(last.model)
    /\ Cardinality(DeclaringEnabled(last.model)) >= 2

\* C4: GetModelService returns NotFound only for a model name that no entry
\* of the document declares, and NoEnabledService for a model name that is
\* declared but only by disabled entries.
C4_FailureKinds ==
    last.op = "GetModelService" =>
        /\ last.err = "NotFound" => Declaring(last.model) = {}
        /\ (Declaring(last.model) # {} /\ DeclaringEnabled(last.model) = {}) =>
              last.err = "NoEnabledService"

\* C9: under "first", every GetModelService call for a model returns the
\* entry that the first call for that model returned.
C9_FirstIsStable ==
    (LoadBalancingStrategy = "first" /\ last.op = "GetModelService"
        /\ last.err = "nil") =>
        /\ last.model \in DOMAIN firstResult
        /\ last.detail = firstResult[last.model].detail

C9_Witness ==
    /\ LoadBalancingStrategy = "first"
    /\ last.op = "GetModelService"
    /\ last.err = "nil"
    /\ firstResult[last.model].again
    /\ Cardinality(DeclaringEnabled(last.model)) >= 2

\* C10: under "first", GetModelService returns the first enabled entry for
\* the model in the declaration order of the document, across services.
C10_FirstInDeclarationOrder ==
    (LoadBalancingStrategy = "first" /\ last.op = "GetModelService"
        /\ last.err = "nil") =>
        \A k \in DeclaringEnabled(last.model) :
            ~DeclaredBefore(k, EntryKey(last.detail))

\* the entries GetModelService(m) can return under the given strategy
Selectable(strategy, m) ==
    {EntryKey(r.detail) :
        r \in {x \in GetModelServiceResults(ModelToService, strategy, m) :
                  x.err = "nil"}}

\* C11: under "random" the entries a GetModelService call for a model can
\* return are exactly the enabled entries declaring that model: none of
\* them is excluded, and every entry returned is one of them.
C11_RandomReachesEveryEnabled ==
    (phase = "serving" /\ LoadBalancingStrategy = "random") =>
        /\ \A m \in ModelNames :
              Selectable(LoadBalancingStrategy, m) = DeclaringEnabled(m)
        /\ (last.op = "GetModelService" /\ last.err = "nil") =>
              EntryKey(last.detail) \in DeclaringEnabled(last.model)

\* a call under "random" has returned an entry that is not the first of the
\* enabled entries of its model
C11_Witness ==
    /\ conf.LoadBalancing = "random"
    /\ last.op = "GetModelService"
    /\ last.err = "nil"
    /\ Cardinality(DeclaringEnabled(last.model)) >= 2
    /\ last.detail # EnabledOnly(ModelToService[last.model])[1]

C13_GetModelMapping ==
    /\ [](mapped # NoMapping =>
            LET modelMap == mapped.s.ServiceModel.ModelMap IN
            /\ mapped.model \in DOMAIN modelMap => mapped.out = modelMap[mapped.model]
            /\ mapped.model \notin DOMAIN modelMap => mapped.out = mapped.model
            /\ modelMap = NoModelMap => mapped.out = mapped.model
            /\ mapped.s \in IndexedDetails(ModelToService))
    /\ [][mapped' # mapped => UNCHANGED <<configVars, governorVars, last, firstResult>>]_vars

C13_Witness ==
    /\ mapped.model = "m1"
    /\ mapped.out = "backend-1"
    /\ mapped.s.ServiceModel.ModelMap = ("m1" :> "backend-1")

\* C19: after InitConfig every ModelDetails stored under model name M is
\* the enabled entry of the document with its service and position, the
\* model list of that entry contains M and so is not empty;
\* GetRandomEnabledModelDetailsV1 therefore never indexes an empty list,
\* and the name it returns is one under which the returned entry is stored.
C19_IndexedUnderDeclaredNames ==
    phase = "serving" =>
        /\ \A m \in DOMAIN ModelToService : \A i \in 1..Len(ModelToService[m]) :
              LET d == ModelToService[m][i] IN
              /\ d.ServiceName \in ServiceSet
              /\ d.slot \in 1..Len(conf.Services[d.ServiceName])
              /\ d.ServiceModel.Models = conf.Services[d.ServiceName][d.slot].Models
              /\ m \in Range(d.ServiceModel.Models)
              /\ Len(d.ServiceModel.Models) > 0
        /\ \A r \in GetRandomEnabledModelDetailsV1Results(ModelToService) \cup
                     (IF last.op = "GetRandomEnabledModelDetailsV1" THEN {last} ELSE {}) :
              /\ r.err # "panic"
              /\ r.err = "nil" =>
                    /\ r.model \in DOMAIN ModelToService
                    /\ r.detail \in Range(ModelToService[r.model])

C19_Witness ==
    /\ last.op = "GetRandomEnabledModelDetailsV1"
    /\ last.err = "nil"
    /\ last.model = "m2"
    /\ last.detail.slot = 2
    /\ conf.Services["alpha"][1].Models = <<>>
    /\ conf.Services["alpha"][1].Enabled

----------------------------------------------------------------------------
(* Properties of the governor *)

Indexed == IndexedDetails(ModelToService)
Holders(k) == {f \in Flows : pc[f] = "holding" /\ EntryKey(held[f]) = k}
\* flows whose acquire on entry k is blocked / has failed with ResourceExhausted
Blocked(k) == {f \in Flows : pc[f] = "waiting" /\ EntryKey(held[f]) = k}
Exhausted(k) ==
    {f \in Flows : pc[f] = "failed" /\ flowErr[f] = "ResourceExhausted"
                   /\ EntryKey(held[f]) = k}

\* C5: every indexed entry has exactly the governor its limit selects by the
\* priority qps > qpm > concurrency > none, never a limiter together with
\* a semaphore, in every state from the build on.
C5_GovernorMode ==
    \A d \in Indexed :
        LET m == d.ServiceModel
            l == m.Limit
            k == EntryKey(d)
        IN /\ ~(~m.Limiter.isNil /\ ~m.ConcurrencyLimiter.isNil)
           /\ (k \in DOMAIN limiters) = ~m.Limiter.isNil
           /\ (k \in DOMAIN semaphores) = ~m.ConcurrencyLimiter.isNil
           /\ IF l.QPS > 0
              THEN /\ m.Limiter = [isNil |-> FALSE, num |-> l.QPS, den |-> 1, burst |-> l.QPS]
                   /\ m.ConcurrencyLimiter.isNil
              ELSE IF l.QPM > 0
              THEN /\ m.Limiter = [isNil |-> FALSE, num |-> l.QPM, den |-> 60, burst |-> l.QPM]
                   /\ m.ConcurrencyLimiter.isNil
              ELSE IF l.Concurrency > 0
              THEN /\ m.Limiter.isNil
                   /\ ~m.ConcurrencyLimiter.isNil
                   /\ m.ConcurrencyLimiter.cap = l.Concurrency
              ELSE m.Limiter.isNil /\ m.ConcurrencyLimiter.isNil

C5_Witness ==
    \E d \in Indexed :
        /\ d.ServiceModel.Limit.QPS = 0
        /\ d.ServiceModel.Limit.QPM > 0
        /\ d.ServiceModel.Limit.Concurrency > 0
        /\ ~d.ServiceModel.Limiter.isNil
        /\ Holders(EntryKey(d)) # {}
        /\ Blocked(EntryKey(d)) # {}

\* C6: for an entry with concurrency = N the channel starts with N permits,
\* permits held plus permits left are always N (so at most N flows hold
\* one), a blocked acquire never waits beyond the entry's timeout, and an
\* acquire fails with ResourceExhausted only after waiting the whole
\* timeout, taking no permit.
C6_ConcurrencyLimiter ==
    \A d \in Indexed :
        LET k == EntryKey(d)
            N == d.ServiceModel.Limit.Concurrency
        IN ~d.ServiceModel.ConcurrencyLimiter.isNil =>
            /\ semaphores[k] \in 0..N
            /\ semaphores[k] + Cardinality(Holders(k)) = N
            /\ \A f \in Blocked(k) : waited[f] <= d.ServiceModel.Timeout
            /\ \A f \in Exhausted(k) : waited[f] = d.ServiceModel.Timeout

C6_Witness ==
    \E d \in Indexed :
        LET k == EntryKey(d) IN
        /\ ~d.ServiceModel.ConcurrencyLimiter.isNil
        /\ Cardinality(Holders(k)) = d.ServiceModel.Limit.Concurrency
        /\ semaphores[k] = 0
        /\ Exhausted(k) # {}

\* the entries configured with qps = 2 and limit.timeout = 0
Qps2Timeout0 ==
    {d \in Indexed : d.ServiceModel.Limit.QPS = 2 /\ d.ServiceModel.Limit.Timeout = 0}

\* C7 (as stated): with qps = 2 and timeout = 0 a request that finds the
\* two tokens of the window taken fails immediately: it never blocks.
C7_ThirdFailsImmediately ==
    \A d \in Qps2Timeout0 :
        granted[EntryKey(d)] = 2 => Blocked(EntryKey(d)) = {}

\* C7 (amended): with qps = 2 and timeout = 0 the entry's timeout is the
\* default of 10; two acquires of a window succeed on the two tokens of the
\* full bucket, and a further request in that window is not rejected at
\* once: it blocks, and is rejected only after waiting the 10 units.
C7_TimeoutZeroIsDefault ==
    \A d \in Qps2Timeout0 :
        LET k == EntryKey(d) IN
        /\ d.ServiceModel.Timeout = defaultLimitTimeout
        /\ limiters[k].tokens = 2 - granted[k]
        /\ granted[k] \in 0..2
        /\ \A f \in Blocked(k) : waited[f] <= defaultLimitTimeout
        /\ \A f \in Exhausted(k) : waited[f] = defaultLimitTimeout

C7_Witness ==
    \E d \in Qps2Timeout0 :
        /\ granted[EntryKey(d)] = 2
        /\ Cardinality(Holders(EntryKey(d))) = 2
        /\ \E f \in Blocked(EntryKey(d)) : waited[f] = 0

\* C8: the bucket of an entry with qps = Q has capacity Q and is full at the
\* start of every time unit: at most Q acquires succeed within one unit, a
\* further one gets no token before the next refill and fails only when its
\* timeout has elapsed, and a release adds no token.
C8_QpsBucket ==
    \A d \in Indexed :
        LET k == EntryKey(d)
            Q == d.ServiceModel.Limit.QPS
        IN Q > 0 =>
            /\ d.ServiceModel.Limiter.burst = Q
            /\ granted[k] \in 0..Q
            /\ limiters[k].tokens = Q - granted[k]
            /\ \A f \in Exhausted(k) : waited[f] = d.ServiceModel.Timeout

C8_Witness ==
    \E d \in Indexed :
        LET k == EntryKey(d) IN
        /\ d.ServiceModel.Limit.QPS = 5
        /\ granted[k] = 5
        /\ limiters[k].tokens = 0
        /\ Blocked(k) # {}
        /\ \E f \in Flows : pc[f] = "idle"

----------------------------------------------------------------------------
(* Properties of the streaming request flows *)

\* flows that hold a permit of entry k, before or while they stream
PermitHolders(k) ==
    {f \in Flows : pc[f] \in {"holding", "streaming"} /\ EntryKey(held[f]) = k}

\* C14: a flow streams only while it holds the permit it acquired before
\* the request was sent; permits held plus permits left are always N, so
\* a permit is given back exactly once; it is given back only when the
\* handler has ended (done frame, error or end of input, the consumer gone
\* or not), and when no flow is active the channel holds N permits again.
C14_PermitHeldWhileStreaming ==
    /\ [](phase = "serving" =>
            /\ state = "STREAMING" => streamer \in Flows
            /\ streamer # 0 =>
                  /\ pc[streamer] = "streaming"
                  /\ held[streamer] \in Indexed
            /\ \A f \in Flows : pc[f] = "streaming" => streamer = f
            /\ \A d \in Indexed :
                  LET k == EntryKey(d)
                      N == d.ServiceModel.Limit.Concurrency
                  IN ~d.ServiceModel.ConcurrencyLimiter.isNil =>
                      /\ semaphores[k] + Cardinality(PermitHolders(k)) = N
                      /\ (\A f \in Flows : pc[f] \in {"idle", "failed"}) =>
                            semaphores[k] = N)
    /\ [][\A k \in DOMAIN semaphores \cap DOMAIN semaphores' :
            semaphores'[k] > semaphores[k] =>
                /\ state \in {"DONE", "ERROR", "EOF"}
                /\ semaphores'[k] = semaphores[k] + 1
                /\ streamer # 0 /\ streamer' = 0]_vars

C14_Witness ==
    /\ phase = "serving"
    /\ \A f \in Flows : pc[f] = "idle"
    /\ streamer = 0
    /\ state = "ERROR"
    /\ ret = Err("BackendError", 7, "x")
    /\ ~connected
    /\ failedWrites = 1
    /\ \A k \in DOMAIN semaphores : semaphores[k] = 2

====
